---- MODULE Spec2Model ----
(***************************************************************************)
(* Model of scripts/experiments.py: the parameter sweep that runs the      *)
(* external LearnLib experiment runner `repeats` times per sweep point and *)
(* folds the per-run fields of the results into lists.                     *)
(*                                                                         *)
(* Reading of the source.  The script is modelled by the control flow and  *)
(* data flow it writes down: `command.extend([flag], value)` appends the   *)
(* flag and then the value, `a.b` on a decoded JSON object reads or writes *)
(* member b of a, the `]` after symbolCount on line 58 is ignored, the     *)
(* `bar` ticked on line 44 is the one opened on line 71, and `targets`     *)
(* (never assigned in the script) is a configured list like `minmaxs`.     *)
(***************************************************************************)
EXTENDS Integers, Sequences, FiniteSets, TLC

VARIABLES algorithm, minmaxs, targets, pc, idx, command, results, running,
          invocations, completed, spawned, started, bars, barTotal, barTicks,
          ret

vars == <<algorithm, minmaxs, targets, pc, idx, command, results, running,
          invocations, completed, spawned, started, bars, barTotal, barTicks,
          ret>>

(***************************************************************************)
(* Bounds of the model.                                                    *)
(***************************************************************************)
MaxMinmaxs == 2

MaxTargets == 2

(***************************************************************************)
(* Module-level configuration, lines 12-21.                                *)
(***************************************************************************)
repeats == 3

frameworks == <<"MAT", "PAR">>

noises == <<"INPUT", "OUTPUT", "MAPPING">>

noiseLevels == <<"0.0", "0.1", "0.2", "0.3">>

javaPath == ""

runnerPath == ""

\* The positional argument: documented as LSTAR / KV / TTT, type=str only.
Algorithms == {"LSTAR", "bogus"}

\* minmaxs is [] in the script and filled in per deployment.
MinmaxsChoices == {[k \in 1..n |-> <<ToString(k), ToString(10 * k)>>] : n \in 0..MaxMinmaxs}

\* targets is not assigned in the script; a list of target model names.
TargetsChoices == {[k \in 1..n |-> "target" \o ToString(k)] : n \in 0..MaxTargets}

(***************************************************************************)
(* Optional values: None is <<>>, Some(v) is <<v>>.  A Python exception    *)
(* raised while computing a value is None.                                 *)
(***************************************************************************)
None == <<>>

Some(v) == <<v>>

IsNone(o) == Len(o) = 0

(***************************************************************************)
(* What one run of the external runner can leave behind: an exit status    *)
(* and the captured standard output, a list of lines.  A line is either    *)
(* text that is not JSON or the text of a JSON object.                     *)
(***************************************************************************)
TextLine == [json |-> FALSE, text |-> "diag"]

JsonLine(o) == [json |-> TRUE, obj |-> o]

ObjA == [config |-> [random |-> 1, label |-> "a"],
         result |-> [success |-> TRUE, queryCount |-> 10, symbolCount |-> 2, states |-> 5]]

ObjB == [config |-> [random |-> 2, label |-> "b"],
         result |-> [success |-> FALSE, queryCount |-> 20, symbolCount |-> 3, states |-> 6]]

ObjNoSymbolCount == [config |-> [random |-> 1, label |-> "a"],
                     result |-> [success |-> TRUE, queryCount |-> 10, states |-> 5]]

Outcomes == {[returncode |-> 0, stdout |-> <<TextLine, JsonLine(ObjA)>>],
             [returncode |-> 0, stdout |-> <<JsonLine(ObjB)>>],
             [returncode |-> 1, stdout |-> <<JsonLine(ObjA)>>],
             [returncode |-> 1, stdout |-> <<>>],
             [returncode |-> 0, stdout |-> <<JsonLine(ObjA), TextLine>>],
             [returncode |-> 0, stdout |-> <<JsonLine(ObjNoSymbolCount)>>]}

(***************************************************************************)
(* run, lines 25-39: the command line.                                     *)
(***************************************************************************)
AddOpens == <<"--add-opens=java.base/java.util=ALL-UNNAMED",
              "--add-opens=java.base/java.util.reflect=ALL-UNNAMED",
              "--add-opens=java.base/java.lang=ALL-UNNAMED",
              "--add-opens=java.base/java.lang.reflect=ALL-UNNAMED">>

CommandSwappedBounds(framework, noise, noiseLevel, minmax, target) ==
    <<javaPath>> \o AddOpens \o <<"-jar", runnerPath>>
        \o <<"-f", framework>> \o <<"-a", algorithm>>
        \o <<"-min", minmax[2]>> \o <<"-max", minmax[1]>>
        \o <<"-n", noise>> \o <<"-nl", noiseLevel>> \o <<"-t", target>>

Command(framework, noise, noiseLevel, minmax, target) ==
    <<javaPath>> \o AddOpens \o <<"-jar", runnerPath>>
        \o <<"-f", framework>> \o <<"-a", algorithm>>
        \o <<"-min", minmax[1]>> \o <<"-max", minmax[2]>>
        \o <<"-n", noise>> \o <<"-nl", noiseLevel>> \o <<"-t", target>>

(***************************************************************************)
(* run, lines 46-47 and 54: result.stdout.decode().splitlines()[-1] and    *)
(* json.loads.                                                             *)
(***************************************************************************)
LastLine(stdout) == IF Len(stdout) = 0 THEN None ELSE Some(stdout[Len(stdout)])

JsonLoads(line) == IF line.json THEN Some(line.obj) ELSE None

ParseResult(result) ==
    LET l == LastLine(result.stdout)
    IN  IF IsNone(l) THEN None ELSE JsonLoads(l[1])

\* a.b for reading: raises when b is not a member of a.
MemberLenient(o, name) == IF name \in DOMAIN o THEN Some(o[name]) ELSE Some(None)

Member(o, name) == IF name \in DOMAIN o THEN Some(o[name]) ELSE None

\* list.append(v)
AddEntryAtFront(list, v) == <<v>> \o list

AddEntry(list, v) == Append(list, v)

\* a.b = v
SetMember(o, name, v) == [k \in DOMAIN o \cup {name} |-> IF k = name THEN v ELSE o[k]]

(***************************************************************************)
(* run, lines 46-51: outInstance is the first result with the four per-run *)
(* members emptied.                                                        *)
(***************************************************************************)
SeedIndexLast(rs) == Len(rs)

SeedIndex(rs) == 1

Seed(rs) ==
    LET first == ParseResult(rs[SeedIndex(rs)])
    IN  IF IsNone(first) THEN None
        ELSE IF ~ ({"config", "result"} \subseteq DOMAIN first[1]) THEN None
        ELSE Some([first[1] EXCEPT
                     !.config = SetMember(@, "random", <<>>),
                     !.result = SetMember(SetMember(SetMember(@, "success", <<>>),
                                                    "queryCount", <<>>),
                                          "symbolCount", <<>>)])

(***************************************************************************)
(* run, lines 53-58: one iteration of the loop over results.               *)
(***************************************************************************)
AppendRun(out, result) ==
    LET instance == ParseResult(result)
    IN  IF IsNone(instance) THEN None
        ELSE IF ~ ({"config", "result"} \subseteq DOMAIN instance[1]) THEN None
        ELSE LET random      == Member(instance[1].config, "random")
                 success     == Member(instance[1].result, "success")
                 queryCount  == Member(instance[1].result, "queryCount")
                 symbolCount == Member(instance[1].result, "symbolCount")
             IN  IF IsNone(random) \/ IsNone(success) \/ IsNone(queryCount)
                       \/ IsNone(symbolCount)
                 THEN None
                 ELSE Some([out EXCEPT
                              !.config.random = AddEntry(@, random[1]),
                              !.result.success = AddEntry(@, success[1]),
                              !.result.queryCount = AddEntry(@, queryCount[1]),
                              !.result.symbolCount = AddEntry(@, symbolCount[1])])

RECURSIVE FoldFrom(_, _, _)
FoldFrom(out, rs, i) ==
    IF i > Len(rs) THEN Some(out)
    ELSE LET next == AppendRun(out, rs[i])
         IN  IF IsNone(next) THEN None ELSE FoldFrom(next[1], rs, i + 1)

\* lines 46-60 as a whole: Some(outInstance), or None when an exception is raised.
Aggregate(rs) ==
    LET seed == Seed(rs)
    IN  IF IsNone(seed) THEN None ELSE FoldFrom(seed[1], rs, 1)

(***************************************************************************)
(* __main__, lines 64-68: the five nested loops.  idx holds the 1-based    *)
(* positions of the loops, outermost first.                                *)
(***************************************************************************)
End == <<0, 0, 0, 0, 0>>

Lens == <<Len(frameworks), Len(noises), Len(noiseLevels), Len(minmaxs), Len(targets)>>

FirstIdx == IF \A k \in 1..5 : Lens[k] > 0 THEN <<1, 1, 1, 1, 1>> ELSE End

NextIdxTargetOuter(i) ==
    IF i[4] < Lens[4] THEN <<i[1], i[2], i[3], i[4] + 1, i[5]>>
    ELSE IF i[3] < Lens[3] THEN <<i[1], i[2], i[3] + 1, 1, i[5]>>
    ELSE IF i[2] < Lens[2] THEN <<i[1], i[2] + 1, 1, 1, i[5]>>
    ELSE IF i[1] < Lens[1] THEN <<i[1] + 1, 1, 1, 1, i[5]>>
    ELSE IF i[5] < Lens[5] THEN <<1, 1, 1, 1, i[5] + 1>>
    ELSE End

NextIdx(i) ==
    IF i[5] < Lens[5] THEN <<i[1], i[2], i[3], i[4], i[5] + 1>>
    ELSE IF i[4] < Lens[4] THEN <<i[1], i[2], i[3], i[4] + 1, 1>>
    ELSE IF i[3] < Lens[3] THEN <<i[1], i[2], i[3] + 1, 1, 1>>
    ELSE IF i[2] < Lens[2] THEN <<i[1], i[2] + 1, 1, 1, 1>>
    ELSE IF i[1] < Lens[1] THEN <<i[1] + 1, 1, 1, 1, 1>>
    ELSE End

\* lines 69-70
uniqueExperiments == Lens[1] * Lens[2] * Lens[3] * Lens[4] * Lens[5]

\* line 42: for _ in range(0, repeats)
LoopContinuesFromOne(rs) == Len(rs) < repeats - 1

LoopContinues(rs) == Len(rs) < repeats

\* line 43: subprocess.run returns only when the child has exited.
PcAfterSpawnNoWait == "run"

PcAfterSpawn == "wait"

\* The loops of lines 64-68 are exhausted and the script ends.
PcAfterLoopsFirstTarget == IF Lens[5] = 0 THEN "failed" ELSE "done"

PcAfterLoops == "done"

(***************************************************************************)
(* State machine.                                                          *)
(***************************************************************************)
Init ==
    /\ algorithm \in Algorithms
    /\ minmaxs \in MinmaxsChoices
    /\ targets \in TargetsChoices
    /\ pc = "main"
    /\ idx = End
    /\ command = <<>>
    /\ results = <<>>
    /\ running = 0
    /\ invocations = 0
    /\ completed = 0
    /\ spawned = <<>>
    /\ started = 0
    /\ bars = 0
    /\ barTotal = 0
    /\ barTicks = 0
    /\ ret = None

\* The loop variables of the next iteration of the innermost loop body.
Upcoming == IF pc = "main" THEN FirstIdx ELSE NextIdx(idx)

\* lines 64-73 and 25-41: one more sweep point; a progress bar is opened
\* for it and run is called, which builds the command.
BeginPoint ==
    /\ pc \in {"main", "returned"}
    /\ Upcoming # End
    /\ idx' = Upcoming
    /\ started' = started + 1
    /\ bars' = bars + 1
    /\ barTotal' = uniqueExperiments
    /\ barTicks' = 0
    /\ command' = Command(frameworks[idx'[1]], noises[idx'[2]], noiseLevels[idx'[3]],
                          minmaxs[idx'[4]], targets[idx'[5]])
    /\ results' = <<>>
    /\ spawned' = <<>>
    /\ ret' = None
    /\ pc' = "run"
    /\ UNCHANGED <<algorithm, minmaxs, targets, running, invocations, completed>>

\* The loops are exhausted.
Finish ==
    /\ pc \in {"main", "returned"}
    /\ Upcoming = End
    /\ pc' = PcAfterLoops
    /\ ret' = None
    /\ UNCHANGED <<algorithm, minmaxs, targets, idx, command, results, running,
                   invocations, completed, spawned, started, bars, barTotal, barTicks>>

\* line 43: subprocess.run starts the child.
Spawn ==
    /\ pc = "run"
    /\ LoopContinues(results)
    /\ running' = running + 1
    /\ invocations' = invocations + 1
    /\ spawned' = Append(spawned, command)
    /\ pc' = PcAfterSpawn
    /\ UNCHANGED <<algorithm, minmaxs, targets, idx, command, results, completed,
                   started, bars, barTotal, barTicks, ret>>

\* lines 43-44: the child has exited, its output is appended, the bar ticks.
Complete ==
    /\ pc = "wait"
    /\ \E o \in Outcomes : results' = Append(results, o)
    /\ running' = running - 1
    /\ completed' = completed + 1
    /\ barTicks' = barTicks + 1
    /\ pc' = "run"
    /\ UNCHANGED <<algorithm, minmaxs, targets, idx, command, invocations, spawned,
                   started, bars, barTotal, ret>>

\* lines 46-60: fold the results; return outInstance or raise.
Return ==
    /\ pc = "run"
    /\ ~ LoopContinues(results)
    /\ ~ IsNone(Aggregate(results))
    /\ ret' = Aggregate(results)
    /\ pc' = "returned"
    /\ UNCHANGED <<algorithm, minmaxs, targets, idx, command, results, running,
                   invocations, completed, spawned, started, bars, barTotal, barTicks>>

Raise ==
    /\ pc = "run"
    /\ ~ LoopContinues(results)
    /\ IsNone(Aggregate(results))
    /\ pc' = "failed"
    /\ UNCHANGED <<algorithm, minmaxs, targets, idx, command, results, running,
                   invocations, completed, spawned, started, bars, barTotal, barTicks,
                   ret>>

Next == BeginPoint \/ Finish \/ Spawn \/ Complete \/ Return \/ Raise

Spec == Init /\ [][Next]_vars

(***************************************************************************)
(* Properties.                                                             *)
(***************************************************************************)
\* The decoded result of the i-th invocation of the current sweep point.
Parsed(i) == ParseResult(results[i])[1]

\* An invocation whose output cannot be folded: no output, a last line that
\* is not JSON, or a result without one of the per-run members.
Unusable(r) ==
    \/ Len(r.stdout) = 0
    \/ ~ r.stdout[Len(r.stdout)].json
    \/ ~ ("random" \in DOMAIN r.stdout[Len(r.stdout)].obj.config)
    \/ ~ ({"success", "queryCount", "symbolCount"}
             \subseteq DOMAIN r.stdout[Len(r.stdout)].obj.result)

C2_TotalInvocations ==
    pc = "done" =>
        invocations = repeats * Len(frameworks) * Len(noises) * Len(noiseLevels)
                          * Len(minmaxs) * Len(targets)

C2_Witness ==
    /\ pc = "done"
    /\ Len(minmaxs) >= 2
    /\ Len(targets) >= 2
    /\ invocations >= repeats * 24 * 4

\* C3: when the sweep has run to completion, the tick count of the progress
\* indicator is the number of sweep points times repeats.
C3_FinalTickCount ==
    pc = "done" => barTicks = uniqueExperiments * repeats

\* C4: with no size bounds or no targets the sweep starts no process, ticks
\* no progress bar and does not fail.
C4_EmptyListsNoWork ==
    (Len(minmaxs) = 0 \/ Len(targets) = 0) =>
        /\ invocations = 0
        /\ barTicks = 0
        /\ started = 0
        /\ pc \in {"main", "done"}

C4_Witness ==
    /\ pc = "done"
    /\ Len(targets) = 0
    /\ Len(minmaxs) > 0

C7_Sequential ==
    /\ running \in {0, 1}
    /\ invocations = completed + running
    /\ Len(spawned) = Len(results) + running
    /\ (running = 1) <=> (pc = "wait")

C7_Witness ==
    /\ pc = "wait"
    /\ started >= 2
    /\ Len(results) = 1

\* Position of a combination in the lexicographic order, framework first.
Rank(i) ==
    ((((i[1] - 1) * Len(noises) + (i[2] - 1)) * Len(noiseLevels) + (i[3] - 1))
        * Len(minmaxs) + (i[4] - 1)) * Len(targets) + (i[5] - 1)

\* C8: the k-th sweep point started is the k-th combination in lexicographic
\* order (framework outermost, target innermost), every combination has been
\* started when the sweep ends, and a sweep point starts only when all
\* invocations of the earlier ones are over.
C8_LexicographicOrder ==
    /\ started > 0 =>
          /\ \A k \in 1..5 : idx[k] \in 1..Lens[k]
          /\ Rank(idx) = started - 1
          /\ completed - Len(results) = repeats * (started - 1)
          /\ invocations - Len(spawned) = repeats * (started - 1)
    /\ started = 0 => invocations = 0
    /\ pc = "done" => started = uniqueExperiments

C8_Witness ==
    /\ pc = "done"
    /\ Len(minmaxs) >= 2
    /\ Len(targets) >= 2
    /\ started = uniqueExperiments

\* C9: one progress indicator is created for the whole sweep, with the number
\* of sweep points as its total; none is created per sweep point.
C9_SingleIndicator ==
    started > 0 => (bars = 1 /\ barTotal = uniqueExperiments)

====
